---- MODULE Spec2Model ----
(***************************************************************************)
(* Document analysis pipeline of MetaDoc: the submission status machine,   *)
(* the analysis result row and the append-only snapshot log, as driven by  *)
(* the HTTP handlers analyze_submission and reprocess_submission           *)
(* (app/api/metadata.py) and by the automatic analysis that upload_file    *)
(* (app/modules/submission.py) runs on a new submission.                   *)
(*                                                                         *)
(* The server is threaded (run.py:107-112): every request runs in its own  *)
(* thread with its own database session.  A request is a process whose     *)
(* steps are its database statements: one action per query or commit, so   *)
(* that two requests interleave where the code gives up the database       *)
(* between a read and the commit that depends on it.  A client names in    *)
(* /analyze/<id> and /reprocess/<id> the id an upload has answered, or an  *)
(* id of no submission.                                                    *)
(*                                                                         *)
(* Fault model: the pipeline stages that touch a file, the database or an  *)
(* external library may fail (text extraction, snapshot recording, report  *)
(* storage); the commits that only write the status (api/metadata.py:63,   *)
(* 74, 83, 213) succeed.                                                   *)
(***************************************************************************)
EXTENDS Integers, Sequences, FiniteSets, TLC

\* ----------------------------------------------------------------- bounds
MaxReqs == 3
MaxSubs == 2

Reqs == 1..MaxReqs
Subs == 1..MaxSubs

\* ------------------------------------------------------- program constants
PENDING    == "pending"
PROCESSING == "processing"
COMPLETED  == "completed"
FAILED     == "failed"
WARNING    == "warning"

SubmissionStatus == {PENDING, PROCESSING, COMPLETED, FAILED, WARNING}
Terminal == {COMPLETED, WARNING, FAILED}

NULL == "NULL"
SET  == "SET"

MajorChangeThreshold == 50

\* Documents a client can submit: the original filename, the SHA-256 of the
\* file as <<first 8 hex characters, remaining characters>>, the number of
\* whitespace-delimited words of its text and the deadline it is submitted
\* for.
Docs ==
  { [original_filename |-> "a.docx", file_hash |-> <<"h1", "x">>, words |-> 100,
     deadline_id |-> "d1"],
    [original_filename |-> "a.docx", file_hash |-> <<"h1", "y">>, words |-> 150,
     deadline_id |-> "d1"],
    [original_filename |-> "b.docx", file_hash |-> <<"h2", "z">>, words |-> 90,
     deadline_id |-> "d1"] }

NoDoc == [original_filename |-> "", file_hash |-> <<"", "">>, words |-> 0,
          deadline_id |-> ""]

\* ------------------------------------------------------------------ state
VARIABLES
  submissions,       \* table submissions: one row per submission id
  analysis_results,  \* table analysis_results: <<>> or <<row>> per submission
  snapshots,         \* table document_snapshots in created_at order
  req,               \* the requests: the handler each is in (kind), its
                     \* position, locals and response
  timeliness,        \* a submission and its deadline, and what the timeliness
                     \* functions returned for them
  call               \* a call of one service function: its arguments and,
                     \* once it has returned, its result

vars == <<submissions, analysis_results, snapshots, req, timeliness, call>>

\* no timeliness evaluation is under way
NoTimeliness == <<>>

\* no service function is called on its own
NoCall == <<>>

NoRow ==
  [exists |-> FALSE, status |-> PENDING, processing_started_at |-> NULL,
   processing_completed_at |-> NULL, error_message |-> NULL, doc |-> NoDoc]

IdleReq ==
  [kind |-> "none", sub |-> 0, pc |-> "idle", resp |-> 0,
   prev |-> 0, existing |-> FALSE, aid |-> 0, snapshotted |-> FALSE,
   text_error |-> FALSE, extracted |-> FALSE, text |-> 0, warnings |-> <<>>,
   set_processing |-> FALSE, final |-> NULL, failed_stage |-> NULL]

Init ==
  /\ submissions = [s \in Subs |-> NoRow]
  /\ analysis_results = [s \in Subs |-> <<>>]
  /\ snapshots = <<>>
  /\ req = [r \in Reqs |-> IdleReq]
  /\ timeliness = NoTimeliness
  /\ call = NoCall

\* ------------------------------------------------------- pure operations

\* MetadataService.create_analysis_snapshot, the identity of a document
file_id(sub) == <<sub.doc.original_filename, sub.doc.file_hash[1]>>

\* DocumentSnapshot.query.filter_by(file_id).order_by(created_at.desc()).first()
\* as the index of the row in the log, 0 when there is none
LatestSnapshot(fid) ==
  LET idx == {i \in 1..Len(snapshots) : snapshots[i].file_id = fid}
  IN IF idx = {} THEN 0 ELSE CHOOSE i \in idx : \A j \in idx : j <= i

Abs(x) == IF x < 0 THEN -x ELSE x

\* MetadataService.compute_content_statistics: the word count of the text
compute_content_statistics(text) == [word_count |-> text]

\* a validation with a minimum word count
validate_document_completeness_MinWords(content_stats, text) ==
  <<content_stats.word_count >= 50,
    IF content_stats.word_count >= 50 THEN <<>> ELSE <<"incomplete">>>>

\* MetadataService.validate_document_completeness: every check is removed
validate_document_completeness(content_stats, text) == <<TRUE, <<>>>>

\* MetadataExtractionService.validate_document_completeness, the validator
\* that upload_file uses
MIN_DOCUMENT_WORDS == 50
MAX_DOCUMENT_WORDS == 15000

upload_validate_document_completeness(content_stats) ==
  LET low  == content_stats.word_count < MIN_DOCUMENT_WORDS
      high == content_stats.word_count > MAX_DOCUMENT_WORDS
  IN <<~low, (IF low THEN <<"incomplete">> ELSE <<>>) \o
             (IF high THEN <<"too_long">> ELSE <<>>)>>

\* The methods class NLPService defines
NLPServiceMethods ==
  {"perform_local_nlp_analysis", "generate_ai_summary", "_analyze_readability",
   "_analyze_tokens", "_extract_named_entities", "_analyze_sentiment",
   "_compute_text_statistics", "_detect_language"}

\* round(n / d) for d > 0: the nearest integer, a tie to the even one
RoundDiv(n, d) ==
  LET q == n \div d
      m == n % d
  IN IF 2 * m < d THEN q
     ELSE IF 2 * m > d THEN q + 1
     ELSE IF q % 2 = 0 THEN q ELSE q + 1

\* The new snapshot row of create_analysis_snapshot, compared with the row
\* at index prev of the log (0: no previous snapshot).  change_percentage is
\* kept in hundredths of a percent (round(x, 2)); has_change FALSE is a null
\* change_percentage.  run and pred record which request appended the row
\* and which predecessor it was compared with.
NewSnapshot(sub, sid, word_count, prev, r) ==
  LET base == [file_id |-> file_id(sub), submission_id |-> sid,
               word_count |-> word_count, file_hash |-> sub.doc.file_hash,
               major_changes |-> FALSE, has_change |-> FALSE,
               change_percentage |-> 0, run |-> r, pred |-> prev]
  IN IF prev # 0 /\ snapshots[prev].word_count > 0
     THEN LET pw     == snapshots[prev].word_count
              change == word_count - pw
          IN [base EXCEPT !.has_change = TRUE,
                          !.change_percentage = RoundDiv(change * 10000, pw),
                          !.major_changes = (Abs(change) * 100 >= MajorChangeThreshold * pw)]
     ELSE base

\* ---------------------------------------------------------------- helpers
Sub(r) == submissions[req[r].sub]

\* the locals of a handler, which end with the request
Locals == {"prev", "existing", "aid", "text", "warnings"}

\* a step of request r: its record changes; a request of the pipeline takes
\* no part in a timeliness evaluation
SetReq(r, fields) ==
  LET ends == "pc" \in DOMAIN fields /\ fields.pc = "done"
  IN /\ req' = [req EXCEPT ![r] = [f \in DOMAIN req[r] |->
                   IF f \in DOMAIN fields THEN fields[f]
                   ELSE IF ends /\ f \in Locals THEN IdleReq[f]
                   ELSE req[r][f]]]
     /\ UNCHANGED <<timeliness, call>>

\* A request arrives.  Requests are numbered in the order of their arrival.
Arrives(r) ==
  /\ req[r].pc = "idle"
  /\ \A q \in Reqs : q < r => req[q].pc # "idle"

\* The ids a client can name in /analyze/<id> and /reprocess/<id>: an id is a
\* uuid4 (models/base.py:34) that the client learns from the response of the
\* upload (modules/submission.py:511-514)
Known(s) ==
  \E q \in Reqs : req[q].kind = "upload" /\ req[q].sub = s /\ req[q].pc = "done"

\* --------------------------------------------------- analyze_submission

\* a guard that refuses only a submission that is being processed
AnalyzeGuard_OnlyProcessing(status) == status # PROCESSING

\* the guard of analyze_submission: a run starts from PENDING only
AnalyzeGuard(status) == status = PENDING

\* api/metadata.py:41-58: POST /analyze/<id> arrives, or reprocess_submission
\* calls analyze_submission; the submission is loaded and its status checked.
\* An id that is not known is the id of no submission: 404.
AnalyzeLoad(r) ==
  /\ \/ /\ Arrives(r)
        /\ SetReq(r, [kind |-> "analyze", pc |-> "done", resp |-> 404])
     \/ \E s \in Subs :
          /\ \/ Arrives(r) /\ Known(s)
             \/ req[r].pc = "a_load" /\ s = req[r].sub
          /\ IF ~AnalyzeGuard(submissions[s].status)
               THEN SetReq(r, [kind |-> "analyze", sub |-> s, pc |-> "done", resp |-> 400])
               ELSE SetReq(r, [kind |-> "analyze", sub |-> s, pc |-> "a_set"])
  /\ UNCHANGED <<submissions, analysis_results, snapshots>>

\* api/metadata.py:60-63: status PROCESSING is committed
AnalyzeSetProcessing(r) ==
  /\ req[r].pc = "a_set"
  /\ submissions' = [submissions EXCEPT ![req[r].sub].status = PROCESSING,
                                        ![req[r].sub].processing_started_at = SET]
  /\ SetReq(r, [pc |-> "a_extract", set_processing |-> TRUE])
  /\ UNCHANGED <<analysis_results, snapshots>>

\* MetadataService.extract_docx_metadata: whatever happens to the parse, the
\* error it returns is None
extract_docx_metadata(parse_ok) ==
  <<[parsing_error |-> ~parse_ok], NULL>>

\* an extraction that returns an empty text instead of the error
extract_document_text_NoError(sub, read_ok) ==
  IF read_ok THEN <<sub.doc.words, NULL>> ELSE <<0, NULL>>

\* MetadataService.extract_document_text: the text (its words) or an error
extract_document_text(sub, read_ok) ==
  IF read_ok THEN <<sub.doc.words, NULL>> ELSE <<0, "Text extraction error">>

\* a failure that commits the status without the error_message
AbortFailed_NoMessage(r, message) ==
  /\ submissions' = [submissions EXCEPT ![req[r].sub].status = FAILED]
  /\ UNCHANGED <<analysis_results, snapshots>>

\* status FAILED and the error as error_message are committed
\* (api/metadata.py:72-74, 81-83, 211-213)
AbortFailed(r, message) ==
  /\ submissions' = [submissions EXCEPT ![req[r].sub].status = FAILED,
                                        ![req[r].sub].error_message = message]
  /\ UNCHANGED <<analysis_results, snapshots>>

\* api/metadata.py:68-95 and metadata_service.py:270-276: metadata, text,
\* statistics and validation, which touch no table, then the query of
\* create_analysis_snapshot for the latest snapshot of the same file_id.  A
\* text error commits FAILED and ends the request.
AnalyzeExtract(r) ==
  /\ req[r].pc = "a_extract"
  /\ \E parse_ok \in BOOLEAN, read_ok \in BOOLEAN :
       LET m == extract_docx_metadata(parse_ok)
           t == extract_document_text(Sub(r), read_ok)
       IN IF m[2] # NULL
            THEN /\ AbortFailed(r, m[2])
                 /\ SetReq(r, [pc |-> "done", resp |-> 500, final |-> FAILED,
                               text_error |-> ~read_ok, failed_stage |-> "metadata"])
          ELSE IF t[2] # NULL
            THEN /\ AbortFailed(r, t[2])
                 /\ SetReq(r, [pc |-> "done", resp |-> 500, final |-> FAILED,
                               text_error |-> ~read_ok, failed_stage |-> "text"])
          ELSE /\ SetReq(r, [pc |-> "a_snap_commit", extracted |-> TRUE,
                             text_error |-> ~read_ok, text |-> t[1],
                             warnings |-> validate_document_completeness(
                                            compute_content_statistics(t[1]), t[1])[2],
                             prev |-> LatestSnapshot(file_id(Sub(r)))])
               /\ UNCHANGED <<submissions, analysis_results, snapshots>>

\* a log that takes the new row at its head
AppendSnapshot_AtHead(log, row) == <<row>> \o log

\* db.session.add(snapshot): the log grows by the new row at its end
AppendSnapshot(log, row) == Append(log, row)

\* api/metadata.py:100-111: the analysis result of the submission is looked
\* up; a run that finds none will insert one, with its own id
ExistingResult(r) ==
  LET found == analysis_results[req[r].sub]
  IN [existing |-> (found # <<>>),
      aid |-> IF found # <<>> THEN found[1].id ELSE r]

\* create_analysis_snapshot, metadata_service.py:278-305: the new snapshot is
\* compared with the one read and committed, or the commit raises and the
\* error is returned, which analyze_submission logs (api/metadata.py:97-98).
\* Nothing lies between this commit and the lookup of the analysis result
\* (api/metadata.py:100-111), which is made in the same step.
SnapshotCommit(r) ==
  /\ req[r].pc = "a_snap_commit"
  /\ \E db_ok \in BOOLEAN :
       IF db_ok
         THEN /\ snapshots' = AppendSnapshot(snapshots,
                     NewSnapshot(Sub(r), req[r].sub,
                                 compute_content_statistics(req[r].text).word_count,
                                 req[r].prev, r))
              /\ SetReq(r, [pc |-> "a_store_commit", snapshotted |-> TRUE,
                            existing |-> ExistingResult(r).existing,
                            aid |-> ExistingResult(r).aid])
         ELSE /\ UNCHANGED snapshots
              /\ SetReq(r, [pc |-> "a_store_commit", failed_stage |-> "snapshot",
                            existing |-> ExistingResult(r).existing,
                            aid |-> ExistingResult(r).aid])
  /\ UNCHANGED <<submissions, analysis_results>>

\* AnalysisResult(submission_id=...): a new row, every column null; id is the
\* run that inserts it
NewResult(id) ==
  [id |-> id, run |-> 0, document_metadata |-> NULL,
   content_statistics |-> [word_count |-> 0], document_text |-> 0,
   is_complete_document |-> TRUE, validation_warnings |-> <<>>,
   nlp_results |-> NULL, ai_summary |-> NULL, ai_insights |-> NULL,
   named_entities |-> NULL]

\* the columns a run assigns (api/metadata.py:113-119,
\* modules/submission.py:490-494); the other columns keep their value
ResultRow(row, r, text, complete, warnings) ==
  [row EXCEPT !.run = r,
              !.document_metadata = SET,
              !.content_statistics = compute_content_statistics(text),
              !.document_text = text,
              !.is_complete_document = complete,
              !.validation_warnings = warnings]

\* except Exception (api/metadata.py:208-216): status FAILED, the message of
\* the exception as error_message, response 500
HandleException(r, stage) ==
  /\ AbortFailed(r, "Processing error")
  /\ SetReq(r, [pc |-> "done", resp |-> 500, final |-> FAILED,
                failed_stage |-> stage])

\* the status of a run that stored its results (api/metadata.py:125)
SuccessStatus(warnings) == IF warnings # <<>> THEN WARNING ELSE COMPLETED

\* api/metadata.py:113-128: the result row is inserted or updated and the
\* status becomes COMPLETED or WARNING in one commit.  The commit raises when
\* the database fails, when the row to insert meets the unique submission_id
\* of a row another request inserted meanwhile (models/analysis.py:14),
\* or when the row to update was deleted meanwhile.
StoreCommit(r) ==
  /\ req[r].pc = "a_store_commit"
  /\ \E db_ok \in BOOLEAN :
       LET s       == req[r].sub
           present == analysis_results[s] # <<>>
           clash   == \/ ~req[r].existing /\ present
                      \/ req[r].existing /\ ~present
                      \/ req[r].existing /\ present /\ analysis_results[s][1].id # req[r].aid
       IN IF db_ok /\ ~clash
            THEN /\ analysis_results' =
                      [analysis_results EXCEPT ![s] =
                         <<ResultRow(IF present THEN analysis_results[s][1]
                                                ELSE NewResult(req[r].aid),
                                     r, req[r].text, TRUE, req[r].warnings)>>]
                 /\ submissions' =
                      [submissions EXCEPT ![s].status = SuccessStatus(req[r].warnings),
                                          ![s].processing_completed_at = SET]
                 /\ SetReq(r, [pc |-> "a_nlp", final |-> SuccessStatus(req[r].warnings)])
                 /\ UNCHANGED snapshots
            ELSE HandleException(r, "storage")

\* The AI reviewer of a deployment: no Gemini key is configured, or Gemini
\* answers, or the call fails
AiReviewer == {"disabled", "answers", "fails"}

\* NLPService.generate_ai_summary: <<summary, error>>; without a configured
\* Gemini the summary is None (nlp_service.py:301-305), as it is when the
\* call raises (351-354)
generate_ai_summary(reviewer) ==
  IF reviewer = "disabled" THEN <<NULL, "Gemini AI not configured">>
  ELSE IF reviewer = "fails" THEN <<NULL, "Gemini error">>
  ELSE <<SET, NULL>>

\* a block that stores what the reviewer returned, its error included, before
\* it consolidates
NlpBlock_ReviewFirst(row, status, reviewer) ==
  [row |-> [row EXCEPT !.ai_summary = SET, !.ai_insights = SET],
   status |-> status]

\* api/metadata.py:145-193: the text analysis block of analyze_submission on
\* the result row: local analysis, AI review, consolidation, then the
\* columns.  NLPService has no method consolidate_nlp_results, so line 166
\* raises AttributeError before any column is assigned; the except of line
\* 190 logs it.  The block never touches the status of the submission.
NlpBlock(row, status, reviewer) ==
  LET ai == generate_ai_summary(reviewer)
  IN IF "consolidate_nlp_results" \notin NLPServiceMethods
       THEN [row |-> row, status |-> status]
       ELSE [row |-> [row EXCEPT !.nlp_results = SET,
                                 !.named_entities = SET,
                                 !.ai_summary = IF ai[1] # NULL THEN SET ELSE @,
                                 !.ai_insights = IF ai[1] # NULL THEN SET ELSE @],
             status |-> status]

\* api/metadata.py:142-216: the text analysis block, then the response.
\* The response reads the submission and the result row again (the commit of
\* line 128 expired them): a reset or a delete by a concurrent reprocess
\* makes .isoformat() or .id raise, which the handler of line 208 turns into
\* FAILED.  Here every call of the reviewer returns, with an answer or
\* with an error.
NlpAndRespond(r) ==
  /\ req[r].pc = "a_nlp"
  /\ LET s       == req[r].sub
         present == analysis_results[s] # <<>> /\ analysis_results[s][1].id = req[r].aid
         broken  == \/ submissions[s].processing_started_at = NULL
                    \/ submissions[s].processing_completed_at = NULL
                    \/ ~present
     IN IF broken
          THEN HandleException(r, "response")
          ELSE \E reviewer \in AiReviewer :
                 LET out == NlpBlock(analysis_results[s][1], submissions[s].status,
                                     reviewer)
                 IN /\ analysis_results' = [analysis_results EXCEPT ![s] = <<out.row>>]
                    /\ submissions' = [submissions EXCEPT ![s].status = out.status]
                    /\ SetReq(r, [pc |-> "done", resp |-> 200])
                    /\ UNCHANGED snapshots

\* -------------------------------------------------- reprocess_submission

\* api/metadata.py:268-284: POST /reprocess/<id> arrives; the submission and
\* its result row are looked up.  An id that is not known is the id of no
\* submission: 404.
ReprocessLoad(r) ==
  /\ Arrives(r)
  /\ \/ SetReq(r, [kind |-> "reprocess", pc |-> "done", resp |-> 404])
     \/ \E s \in Subs :
          /\ Known(s)
          /\ SetReq(r, [kind |-> "reprocess", sub |-> s, pc |-> "r_reset",
                        existing |-> (analysis_results[s] # <<>>),
                        aid |-> IF analysis_results[s] # <<>>
                                  THEN analysis_results[s][1].id ELSE 0])
  /\ UNCHANGED <<submissions, analysis_results, snapshots>>

\* a reset that deletes the result row and leaves the status as it is
ReprocessReset_KeepStatus(r) ==
  /\ req[r].pc = "r_reset"
  /\ analysis_results' = [analysis_results EXCEPT ![req[r].sub] = <<>>]
  /\ SetReq(r, [kind |-> "analyze", pc |-> "a_load", existing |-> FALSE, aid |-> 0])
  /\ UNCHANGED <<submissions, snapshots>>

\* a reset that leaves the result row where it is
ReprocessReset_KeepResult(r) ==
  /\ req[r].pc = "r_reset"
  /\ submissions' = [submissions EXCEPT ![req[r].sub].status = PENDING,
                                        ![req[r].sub].processing_started_at = NULL,
                                        ![req[r].sub].processing_completed_at = NULL,
                                        ![req[r].sub].error_message = NULL]
  /\ SetReq(r, [kind |-> "analyze", pc |-> "a_load", existing |-> FALSE, aid |-> 0])
  /\ UNCHANGED <<analysis_results, snapshots>>

\* api/metadata.py:277-294: the status is reset to PENDING whatever it was,
\* the result row that was found is deleted, and analyze_submission is
\* called: the request goes on in that handler
ReprocessReset(r) ==
  /\ req[r].pc = "r_reset"
  /\ LET s == req[r].sub
     IN /\ submissions' = [submissions EXCEPT ![s].status = PENDING,
                                              ![s].processing_started_at = NULL,
                                              ![s].processing_completed_at = NULL,
                                              ![s].error_message = NULL]
        /\ analysis_results' =
             IF /\ req[r].existing
                /\ analysis_results[s] # <<>>
                /\ analysis_results[s][1].id = req[r].aid
               THEN [analysis_results EXCEPT ![s] = <<>>]
               ELSE analysis_results
  /\ SetReq(r, [kind |-> "analyze", pc |-> "a_load", existing |-> FALSE, aid |-> 0])
  /\ UNCHANGED snapshots

\* ------------------------------------------------------------ upload_file

\* SubmissionService.check_duplicate_submission: a submission with the same
\* file hash exists for the same deadline (of the same professor)
check_duplicate_submission(file_hash, deadline_id) ==
  \E s \in Subs : /\ submissions[s].exists
                  /\ submissions[s].doc.file_hash = file_hash
                  /\ submissions[s].doc.deadline_id = deadline_id

\* the id of a new submission, a fresh uuid4: here the first number that
\* names no submission yet
FreeId(s) ==
  /\ ~submissions[s].exists
  /\ \A t \in Subs : t < s => submissions[t].exists

\* modules/submission.py:314-454: POST /upload arrives with a document; a
\* duplicate is refused with 409, otherwise the submission row is created
\* PENDING
UploadCreate(r) ==
  /\ Arrives(r)
  /\ \E d \in Docs, s \in Subs :
       /\ FreeId(s)
       /\ IF check_duplicate_submission(d.file_hash, d.deadline_id)
            THEN /\ SetReq(r, [kind |-> "upload", pc |-> "done", resp |-> 409])
                 /\ UNCHANGED submissions
            ELSE /\ submissions' = [submissions EXCEPT ![s] =
                                      [NoRow EXCEPT !.exists = TRUE, !.doc = d]]
                 /\ SetReq(r, [kind |-> "upload", sub |-> s, pc |-> "u_set"])
  /\ UNCHANGED <<analysis_results, snapshots>>

\* modules/submission.py:468-471: status PROCESSING is committed
UploadSetProcessing(r) ==
  /\ req[r].pc = "u_set"
  /\ submissions' = [submissions EXCEPT ![req[r].sub].status = PROCESSING,
                                        ![req[r].sub].processing_started_at = SET]
  /\ SetReq(r, [pc |-> "u_analyze", set_processing |-> TRUE])
  /\ UNCHANGED <<analysis_results, snapshots>>

\* modules/submission.py:473-521: the automatic analysis.  With the text the
\* result row is stored and the status becomes COMPLETED; a text error skips
\* the block and writes nothing; an exception resets the status to PENDING.
UploadAnalyze(r) ==
  /\ req[r].pc = "u_analyze"
  /\ LET s == req[r].sub
     IN \E parse_ok \in BOOLEAN, outcome \in {"ok", "text_error", "raise"} :
          LET m == extract_docx_metadata(parse_ok)
              t == extract_document_text(submissions[s], outcome # "text_error")
              v == upload_validate_document_completeness(compute_content_statistics(t[1]))
          IN IF m[2] # NULL \/ t[2] # NULL
               THEN /\ SetReq(r, [pc |-> "done", resp |-> 201, text_error |-> (t[2] # NULL),
                                  failed_stage |-> "text"])
                    /\ UNCHANGED <<submissions, analysis_results>>
             ELSE IF outcome = "raise"
               THEN /\ submissions' = [submissions EXCEPT ![s].status = PENDING]
                    /\ SetReq(r, [pc |-> "done", resp |-> 201, extracted |-> TRUE,
                                  final |-> PENDING, failed_stage |-> "storage"])
                    /\ UNCHANGED analysis_results
             ELSE /\ analysis_results' =
                       [analysis_results EXCEPT ![s] =
                          <<ResultRow(IF analysis_results[s] # <<>>
                                        THEN analysis_results[s][1] ELSE NewResult(r),
                                      r, t[1], v[1], v[2])>>]
                  /\ submissions' = [submissions EXCEPT ![s].status = COMPLETED,
                                                        ![s].processing_completed_at = SET]
                  /\ SetReq(r, [pc |-> "done", resp |-> 201, extracted |-> TRUE,
                                text |-> t[1], final |-> COMPLETED])
  /\ UNCHANGED snapshots

\* ---------------------------------------------------------- specification
Next ==
  \E r \in Reqs :
    \/ AnalyzeLoad(r)
    \/ AnalyzeSetProcessing(r)
    \/ AnalyzeExtract(r)
    \/ SnapshotCommit(r)
    \/ StoreCommit(r)
    \/ NlpAndRespond(r)
    \/ ReprocessLoad(r)
    \/ ReprocessReset(r)
    \/ UploadCreate(r)
    \/ UploadSetProcessing(r)
    \/ UploadAnalyze(r)

Spec == Init /\ [][Next]_vars

\* The server keeps serving: while a request can arrive or a thread has a
\* statement to execute, one of them does (run.py:107-112).
FairSpec == Spec /\ WF_vars(Next)

\* nlp_service.py:331-332: generate_content is called without a timeout and
\* the handler sets none (api/metadata.py:163).  A Gemini that does not
\* answer leaves the request inside the call, at a_review, with no step
\* left; the tables are those of the state before the call.
ReviewerHangs(r) ==
  /\ req[r].pc = "a_nlp"
  /\ SetReq(r, [pc |-> "a_review"])
  /\ UNCHANGED <<submissions, analysis_results, snapshots>>

\* the pipeline with a reviewer whose call may not return
ReviewNext ==
  \E r \in Reqs :
    \/ AnalyzeLoad(r)
    \/ AnalyzeSetProcessing(r)
    \/ AnalyzeExtract(r)
    \/ SnapshotCommit(r)
    \/ StoreCommit(r)
    \/ NlpAndRespond(r)
    \/ ReviewerHangs(r)
    \/ ReprocessLoad(r)
    \/ ReprocessReset(r)
    \/ UploadCreate(r)
    \/ UploadSetProcessing(r)
    \/ UploadAnalyze(r)

ReviewSpec == Init /\ [][ReviewNext]_vars /\ WF_vars(ReviewNext)

TypeOK ==
  /\ \A s \in Subs : submissions[s].status \in SubmissionStatus
  /\ \A r \in Reqs : req[r].resp \in {0, 200, 201, 400, 404, 409, 500}

\* ------------------------------------------------------------ properties
IsRun(r) == req[r].kind \in {"analyze", "reprocess"}

\* a request is between its commit of PROCESSING and its terminal commit
Active(r) ==
  /\ IsRun(r)
  /\ req[r].pc \in {"a_extract", "a_snap_commit", "a_store_commit"}

\* the request makes a step
Steps(r) == req'[r] # req[r]

\* the step is the load of analyze_submission, called for submission s by
\* the route or by reprocess_submission
AnalyzeLoadStep(r, s) ==
  /\ Steps(r)
  /\ req[r].pc \in {"idle", "a_load"}
  /\ req'[r].kind = "analyze"
  /\ req'[r].sub = s

SnapshotsOf(fid) == {i \in 1..Len(snapshots) : snapshots[i].file_id = fid}

FileIds == {<<d.original_filename, d.file_hash[1]>> : d \in Docs}

\* C1: for one submission, no two analyze or reprocess requests are both
\* between setting PROCESSING and setting a terminal status.
C1_AtMostOneActiveRun ==
  \A r1, r2 \in Reqs :
    (r1 # r2 /\ req[r1].sub = req[r2].sub) => ~(Active(r1) /\ Active(r2))

\* C2: analyze_submission that finds the submission in a status other than
\* PENDING answers 400 and changes neither the submission, nor its analysis
\* result, nor the snapshot log.
C2_NotPendingRejected ==
  [][\A r \in Reqs, s \in Subs :
       (/\ AnalyzeLoadStep(r, s)
        /\ submissions[s].status # PENDING)
       => /\ req'[r].pc = "done"
          /\ req'[r].resp = 400
          /\ UNCHANGED <<submissions, analysis_results, snapshots>>]_vars

C2_Witness ==
  \E r \in Reqs :
    /\ req[r].kind = "analyze"
    /\ req[r].pc = "done"
    /\ req[r].resp = 400
    /\ Sub(r).status = COMPLETED
    /\ analysis_results[req[r].sub] # <<>>

\* the analysis runs on an identity: the calls of analyze_submission that
\* started (committed PROCESSING) for a submission of that file_id
RunsOn(fid) ==
  {r \in Reqs : IsRun(r) /\ req[r].set_processing /\ file_id(Sub(r)) = fid}

\* C3 as stated: once the N runs on an identity have ended, the snapshot log
\* of the identity has length N.
C3_LogLengthIsRunCount ==
  \A fid \in FileIds :
    (\A r \in RunsOn(fid) : req[r].pc = "done")
      => Cardinality(SnapshotsOf(fid)) = Cardinality(RunsOn(fid))

\* C3 amended: the snapshot log of an identity has one row for each run whose
\* snapshot stage succeeded and none for any other run, so never more rows
\* than runs; and every step leaves the log as it is or appends one row to
\* it, the earlier rows unchanged and in their order.
C3_SnapshotLogAppendOnly ==
  /\ [](\A fid \in FileIds :
          /\ Cardinality(SnapshotsOf(fid)) =
               Cardinality({r \in RunsOn(fid) : req[r].snapshotted})
          /\ Cardinality(SnapshotsOf(fid)) <= Cardinality(RunsOn(fid))
          /\ \A r \in Reqs :
               Cardinality({i \in 1..Len(snapshots) : snapshots[i].run = r}) <= 1)
  /\ [][\/ snapshots' = snapshots
        \/ /\ Len(snapshots') = Len(snapshots) + 1
           /\ SubSeq(snapshots', 1, Len(snapshots)) = snapshots]_vars

C3_Witness ==
  \E i, j \in 1..Len(snapshots) :
    /\ i < j
    /\ snapshots[i].file_id = snapshots[j].file_id
    /\ snapshots[i].run # snapshots[j].run

\* C4: no two snapshots of one identity were computed against the same
\* predecessor.
C4_AppendsSerialized ==
  \A i, j \in 1..Len(snapshots) :
    (i # j /\ snapshots[i].file_id = snapshots[j].file_id)
      => snapshots[i].pred # snapshots[j].pred

\* C5: a status changes only PENDING -> PROCESSING, PROCESSING -> COMPLETED,
\* WARNING or FAILED, and to PENDING only by the reset of reprocess.
C5_StatusMachine ==
  [][\A s \in Subs :
       submissions'[s].status # submissions[s].status =>
         \/ /\ submissions[s].status = PENDING
            /\ submissions'[s].status = PROCESSING
         \/ /\ submissions[s].status = PROCESSING
            /\ submissions'[s].status \in Terminal
         \/ /\ submissions'[s].status = PENDING
            /\ \E r \in Reqs : req[r].pc = "r_reset" /\ req[r].sub = s /\ Steps(r)]_vars

\* C6: a run that set PROCESSING has, when it ends, finalized the submission
\* in COMPLETED, WARNING or FAILED.
C6_EveryRunFinalizes ==
  \A r \in Reqs :
    (req[r].pc = "done" /\ req[r].set_processing) => req[r].final \in Terminal

\* C7: a run of analyze_submission whose text extraction fails commits
\* FAILED with the extraction error as error_message, ends there, and stores
\* no statistics, no snapshot and no analysis result.
C7_TextFailureAborts ==
  /\ [](\A r \in Reqs :
          (IsRun(r) /\ req[r].text_error) =>
             /\ req[r].pc = "done"
             /\ req[r].resp = 500
             /\ req[r].final = FAILED
             /\ ~req[r].extracted
             /\ \A i \in 1..Len(snapshots) : snapshots[i].run # r
             /\ \A s \in Subs :
                  analysis_results[s] # <<>> => analysis_results[s][1].run # r)
  /\ [][\A r \in Reqs :
          (IsRun(r) /\ ~req[r].text_error /\ req'[r].text_error) =>
             /\ submissions'[req[r].sub].status = FAILED
             /\ submissions'[req[r].sub].error_message = "Text extraction error"
             /\ UNCHANGED <<analysis_results, snapshots>>]_vars

C7_Witness ==
  \E r \in Reqs :
    /\ IsRun(r)
    /\ req[r].text_error
    /\ Sub(r).status = FAILED
    /\ Sub(r).error_message = "Text extraction error"

\* C8: a run whose text was extracted never ends in FAILED, whichever later
\* stage fails.
C8_LaterFailureNeverFails ==
  \A r \in Reqs : (IsRun(r) /\ req[r].extracted) => req[r].final # FAILED

C10_TerminalIsLastStep ==
  \A r \in Reqs :
    (IsRun(r) /\ req[r].pc = "a_nlp") => Sub(r).status \notin {COMPLETED, WARNING}

Predecessor(i) ==
  LET idx == {j \in 1..(i - 1) : snapshots[j].file_id = snapshots[i].file_id}
  IN IF idx = {} THEN 0 ELSE CHOOSE j \in idx : \A k \in idx : k <= j

\* C13: the change_percentage of every snapshot is null when no snapshot of
\* its identity precedes it, and otherwise (new_word_count - prev_word_count)
\* / prev_word_count * 100 against the immediately preceding one, as stored
\* with two decimals (a preceding word count of 0 is the case of C14).
C13_ChangeAgainstPredecessor ==
  \A i \in 1..Len(snapshots) :
    LET p == Predecessor(i)
    IN IF p = 0
         THEN ~snapshots[i].has_change
         ELSE snapshots[p].word_count > 0 =>
                /\ snapshots[i].has_change
                /\ snapshots[i].change_percentage =
                     RoundDiv((snapshots[i].word_count - snapshots[p].word_count) * 10000,
                              snapshots[p].word_count)

\* ------------------------------------------ snapshot tracking, run by run
\* create_analysis_snapshot and compute_contribution_growth as functions of
\* the tables: the submissions are drawn from what upload_file can have
\* stored, and every step is the create_analysis_snapshot of one run, from
\* its query to its commit, that no other run overlaps.

MaxLog == 3

Deadlines == {"d1", "d2"}

\* what a file named a.docx can hold: nothing, a draft, the revised draft
Contents == {"empty", "draft", "revised"}

\* SubmissionService.calculate_file_hash: the SHA-256 of the content, as
\* <<first 8 hex characters, remaining characters>>
calculate_file_hash(content) ==
  CASE content = "empty"   -> <<"h0", "w">>
    [] content = "draft"   -> <<"h1", "x">>
    [] content = "revised" -> <<"h3", "v">>

\* the whitespace-delimited words of the text of the content
WordsOf(content) ==
  CASE content = "empty"   -> 0
    [] content = "draft"   -> 100
    [] content = "revised" -> 150

\* upload_file, modules/submission.py:354-454: the columns of the submission
\* row come from the uploaded file and the deadline it is submitted for
Uploads ==
  { [original_filename |-> "a.docx", file_hash |-> calculate_file_hash(c),
     words |-> WordsOf(c), deadline_id |-> d] : c \in Contents, d \in Deadlines }

\* the submissions tables upload_file can have stored: ids in the order of
\* creation, no file twice for one deadline (check_duplicate_submission)
StoredSubmissions ==
  { t \in [Subs -> {NoRow} \cup {[NoRow EXCEPT !.exists = TRUE, !.doc = d] : d \in Uploads}] :
      /\ \A s1, s2 \in Subs : (s1 < s2 /\ t[s2].exists) => t[s1].exists
      /\ \A s1, s2 \in Subs :
           (s1 # s2 /\ t[s1].exists /\ t[s2].exists) =>
             ~(/\ t[s1].doc.file_hash = t[s2].doc.file_hash
               /\ t[s1].doc.deadline_id = t[s2].doc.deadline_id) }

SnapInit ==
  /\ submissions \in StoredSubmissions
  /\ analysis_results = [s \in Subs |-> <<>>]
  /\ snapshots = <<>>
  /\ req = [r \in Reqs |-> IdleReq]
  /\ timeliness = NoTimeliness
  /\ call = NoCall

\* create_analysis_snapshot, metadata_service.py:268-301, called with the
\* statistics of the text of the submission (api/metadata.py:86-97)
create_analysis_snapshot(s) ==
  /\ submissions[s].exists
  /\ Len(snapshots) < MaxLog
  /\ LET text          == extract_document_text(submissions[s], TRUE)[1]
         content_stats == compute_content_statistics(text)
     IN snapshots' = AppendSnapshot(snapshots,
                       NewSnapshot(submissions[s], s, content_stats.word_count,
                                   LatestSnapshot(file_id(submissions[s])), 0))
  /\ UNCHANGED <<submissions, analysis_results, req, timeliness, call>>

SnapNext == \E s \in Subs : create_analysis_snapshot(s)

SnapSpec == SnapInit /\ [][SnapNext]_vars

\* InsightsService.major_contribution_threshold
major_contribution_threshold == 50

\* InsightsService.compute_contribution_growth, insights_service.py:99-150.
\* previous_word_count and change_percentage are <<>> for None;
\* change_percentage is in hundredths of a percent (round(x, 2)).
compute_contribution_growth(s) ==
  LET mine == {i \in 1..Len(snapshots) : snapshots[i].submission_id = s}
      none == [has_comparison |-> FALSE, current_word_count |-> 0,
               previous_word_count |-> <<>>, change_percentage |-> <<>>,
               is_major_contribution |-> FALSE]
  IN IF mine = {} THEN none
     ELSE
       LET cur    == CHOOSE i \in mine : \A j \in mine : j <= i
           others == {i \in 1..Len(snapshots) :
                        /\ snapshots[i].file_id = snapshots[cur].file_id
                        /\ i # cur}
       IN IF others = {}
            THEN [none EXCEPT !.current_word_count = snapshots[cur].word_count]
            ELSE
              LET prv    == CHOOSE i \in others : \A j \in others : j <= i
                  cw     == snapshots[cur].word_count
                  pw     == snapshots[prv].word_count
                  change == cw - pw
                  pct    == IF pw > 0 THEN RoundDiv(change * 10000, pw)
                            ELSE IF cw > 0 THEN 10000 ELSE 0
                  major  == IF pw > 0
                              THEN Abs(change) * 100 >= major_contribution_threshold * pw
                            ELSE IF cw > 0 THEN 100 >= major_contribution_threshold
                            ELSE 0 >= major_contribution_threshold
              IN [has_comparison |-> TRUE, current_word_count |-> cw,
                  previous_word_count |-> <<pw>>, change_percentage |-> <<pct>>,
                  is_major_contribution |-> major]

C15_GrowthAgainstPredecessor ==
  \A s \in Subs :
    LET mine == {i \in 1..Len(snapshots) : snapshots[i].submission_id = s}
    IN mine # {} =>
         LET cur == CHOOSE i \in mine : \A j \in mine : j <= i
             g   == compute_contribution_growth(s)
         IN IF Predecessor(cur) = 0
              THEN ~g.has_comparison /\ g.change_percentage = <<>>
              ELSE /\ g.has_comparison
                   /\ g.previous_word_count = <<snapshots[Predecessor(cur)].word_count>>

\* C16: the snapshots of one logical document, the file of one name
\* submitted for one deadline, whatever its revision, have one identity.
C16_OneIdentityPerDocument ==
  \A i, j \in 1..Len(snapshots) :
    LET di == submissions[snapshots[i].submission_id].doc
        dj == submissions[snapshots[j].submission_id].doc
    IN (di.original_filename = dj.original_filename /\ di.deadline_id = dj.deadline_id)
         => snapshots[i].file_id = snapshots[j].file_id

\* ------------------------------------------------- deadline timeliness
\* evaluate_submission_timeliness and Submission.is_late as functions of a
\* submission and its deadline.  A time is a number of seconds since
\* 2024-01-01T00:00:00; a naive datetime is that number with no zone.

MaxCalls == 2

ON_TIME          == "on_time"
LATE             == "late"
LAST_MINUTE_RUSH == "last_minute_rush"
NO_DEADLINE      == "no_deadline"

\* InsightsService.last_minute_threshold_hours
last_minute_threshold_hours == 1

SecondsPerHour   == 3600
SecondsPerMinute == 60

\* Submission.created_at (datetime.utcnow): 21:00, 21:59:30, 22:00, 22:05,
\* 23:00, 23:00:30 and 23:05
CreatedAts == {75600, 79170, 79200, 79500, 82800, 82830, 83100}

\* document_metadata['last_modified_date']: absent, an ISO string with its
\* offset (22:05Z, and the same instant written 06:05+08:00 of the next
\* day), or a string datetime.fromisoformat rejects
LastModifiedDates ==
  { <<>>,
    <<[valid |-> TRUE, wall |-> 79500, offset |-> 0]>>,
    <<[valid |-> TRUE, wall |-> 108300, offset |-> 28800]>>,
    <<[valid |-> FALSE, wall |-> 0, offset |-> 0]>> }

\* Deadline.timezone: unset, empty, 'UTC', two zones and a name pytz does
\* not know
Timezones == {NULL, "", "UTC", "Asia/Manila", "America/New_York", "Mars/Olympus"}

\* the deadlines of a submission: none, or 23:00 wall clock in a timezone
DeadlineRows ==
  {<<>>} \cup {<<[deadline_datetime |-> 82800, timezone |-> tz]>> : tz \in Timezones}

\* pytz.timezone(name): <<the offset from UTC on that day>>, or <<>> for
\* UnknownTimeZoneError
pytz_timezone(name) ==
  CASE name = "UTC"              -> <<0>>
    [] name = "Asia/Manila"      -> <<28800>>
    [] name = "America/New_York" -> <<-18000>>
    [] OTHER                     -> <<>>

\* tz.localize(naive).astimezone(pytz.UTC): the instant of the wall clock
localize(naive, offset) == naive - offset

\* int(x / d): the quotient cut toward zero
Trunc(n, d) == IF n >= 0 THEN n \div d ELSE -((-n) \div d)

\* a rule that keeps the threshold itself out of the last-minute window
Classify_StrictThreshold(time_difference) ==
  IF time_difference <= 0
    THEN IF -time_difference < last_minute_threshold_hours * SecondsPerHour
           THEN LAST_MINUTE_RUSH ELSE ON_TIME
    ELSE LATE

\* insights_service.py:63-74: the classification of a time difference
Classify(time_difference) ==
  IF time_difference <= 0
    THEN IF -time_difference <= last_minute_threshold_hours * SecondsPerHour
           THEN LAST_MINUTE_RUSH ELSE ON_TIME
    ELSE LATE

\* a deadline taken as UTC whatever its timezone
DeadlineTimeUTC_Naive(deadline) == deadline.deadline_datetime

\* insights_service.py:44-59: the deadline as a UTC instant
DeadlineTimeUTC(deadline) ==
  LET request_tz == deadline.timezone
  IN IF request_tz # NULL /\ request_tz # "" /\ request_tz # "UTC"
       THEN IF pytz_timezone(request_tz) # <<>>
              THEN localize(deadline.deadline_datetime, pytz_timezone(request_tz)[1])
              ELSE localize(deadline.deadline_datetime, 0)
       ELSE localize(deadline.deadline_datetime, 0)

\* a submission time that is always the receipt time
SubmissionTimeUTC_ReceiptOnly(submission) == localize(submission.created_at, 0)

\* insights_service.py:31-42, 58: the submission time as a UTC instant
SubmissionTimeUTC(submission) ==
  IF submission.last_modified_date # <<>>
    THEN localize(submission.last_modified_date[1].wall,
                  submission.last_modified_date[1].offset)
    ELSE localize(submission.created_at, 0)

\* InsightsService.evaluate_submission_timeliness, insights_service.py:21-97;
\* details is <<>> for None
evaluate_submission_timeliness(submission, deadline) ==
  IF deadline = <<>>
    THEN [classification |-> NO_DEADLINE, details |-> <<>>]
  ELSE IF submission.last_modified_date # <<>> /\ ~submission.last_modified_date[1].valid
    THEN [classification |-> NO_DEADLINE, details |-> <<>>]
  ELSE
    LET submission_time == SubmissionTimeUTC(submission)
        deadline_time   == DeadlineTimeUTC(deadline[1])
        time_difference == submission_time - deadline_time
    IN [classification |-> Classify(time_difference),
        details |-> <<[submission_time |-> submission_time,
                       deadline_time |-> deadline_time,
                       time_difference_minutes |-> Trunc(time_difference, SecondsPerMinute),
                       is_late |-> time_difference > 0,
                       is_last_minute |->
                         /\ time_difference <= 0
                         /\ -time_difference <= last_minute_threshold_hours * SecondsPerHour]>>]

\* Submission.is_late, models/submission.py:44-68
is_late(submission, deadline) ==
  IF deadline = <<>> THEN FALSE
  ELSE LET tz == deadline[1].timezone
       IN IF tz # NULL /\ tz # "" /\ tz # "UTC" /\ pytz_timezone(tz) # <<>>
            THEN localize(submission.created_at, 0) >
                   localize(deadline[1].deadline_datetime, pytz_timezone(tz)[1])
            ELSE submission.created_at > deadline[1].deadline_datetime

TimeInit ==
  /\ submissions = [s \in Subs |-> NoRow]
  /\ analysis_results = [s \in Subs |-> <<>>]
  /\ snapshots = <<>>
  /\ req = [r \in Reqs |-> IdleReq]
  /\ call = NoCall
  /\ timeliness \in
       { [submission |-> [created_at |-> c, last_modified_date |-> m],
          deadline |-> d, results |-> <<>>, late |-> <<>>] :
           c \in CreatedAts, m \in LastModifiedDates, d \in DeadlineRows }

\* an evaluation that keeps the localized deadline in the deadline row
EvaluateTimeliness_InPlace ==
  /\ Len(timeliness.results) < MaxCalls
  /\ timeliness' =
       [timeliness EXCEPT
          !.results = Append(@, evaluate_submission_timeliness(timeliness.submission,
                                                               timeliness.deadline)),
          !.deadline = IF timeliness.deadline = <<>> THEN <<>>
                       ELSE <<[deadline_datetime |-> DeadlineTimeUTC(timeliness.deadline[1]),
                               timezone |-> timeliness.deadline[1].timezone]>>]
  /\ UNCHANGED <<submissions, analysis_results, snapshots, req, call>>

\* a call of evaluate_submission_timeliness: its result is kept
EvaluateTimeliness ==
  /\ Len(timeliness.results) < MaxCalls
  /\ timeliness' =
       [timeliness EXCEPT
          !.results = Append(@, evaluate_submission_timeliness(timeliness.submission,
                                                               timeliness.deadline))]
  /\ UNCHANGED <<submissions, analysis_results, snapshots, req, call>>

\* a read of Submission.is_late: its result is kept
CheckIsLate ==
  /\ timeliness.late = <<>>
  /\ timeliness' = [timeliness EXCEPT
                      !.late = <<is_late(timeliness.submission, timeliness.deadline)>>]
  /\ UNCHANGED <<submissions, analysis_results, snapshots, req, call>>

TimeNext == EvaluateTimeliness \/ CheckIsLate

TimeSpec == TimeInit /\ [][TimeNext]_vars

\* the results of the calls that produced details
Evaluated == {i \in 1..Len(timeliness.results) : timeliness.results[i].details # <<>>}

C18_RederiveFromMinutes ==
  \A i \in Evaluated :
    Classify(timeliness.results[i].details[1].time_difference_minutes * SecondsPerMinute)
      = timeliness.results[i].classification

\* the offset the deadline's timezone stands for: its own when it is a
\* zone that resolves, UTC's when it is unset, 'UTC' or unresolvable
DeclaredOffset(tz) ==
  CASE tz = "Asia/Manila"      -> 28800
    [] tz = "America/New_York" -> -18000
    [] OTHER                   -> 0

\* C19: a naive deadline is read as wall clock in the deadline's timezone,
\* and as UTC when the timezone is unset, 'UTC' or cannot be resolved, both
\* by evaluate_submission_timeliness and by Submission.is_late.
C19_DeadlineLocalized ==
  timeliness.deadline # <<>> =>
    LET due == timeliness.deadline[1].deadline_datetime
                 - DeclaredOffset(timeliness.deadline[1].timezone)
    IN /\ \A i \in Evaluated : timeliness.results[i].details[1].deadline_time = due
       /\ timeliness.late # <<>> =>
            (timeliness.late[1] <=> timeliness.submission.created_at > due)

\* a 23:00 Manila deadline was evaluated as 15:00 UTC, and a submission
\* created at 21:00 UTC was found late by is_late
C19_Witness ==
  /\ timeliness.deadline # <<>>
  /\ timeliness.deadline[1].timezone = "Asia/Manila"
  /\ timeliness.submission.created_at = 75600
  /\ timeliness.late = <<TRUE>>
  /\ \E i \in Evaluated : timeliness.results[i].details[1].deadline_time = 54000

\* C20: two classifications from the same stored submission and deadline
\* are equal, and a classification leaves the submission and the deadline
\* as they were.
C20_Deterministic ==
  /\ [](\A i, j \in 1..Len(timeliness.results) :
          timeliness.results[i] = timeliness.results[j])
  /\ [][/\ timeliness'.submission = timeliness.submission
         /\ timeliness'.deadline = timeliness.deadline]_vars

\* a submission with a zoned deadline was classified twice
C20_Witness ==
  /\ Len(timeliness.results) = 2
  /\ timeliness.deadline # <<>>
  /\ timeliness.deadline[1].timezone = "Asia/Manila"
  /\ timeliness.results[2].classification = LATE

\* C21: the submission time of a comparison is the metadata's
\* last_modified_date whenever there is one, and created_at otherwise.
C21_EffectiveSubmissionTime ==
  \A i \in Evaluated :
    LET m == timeliness.submission.last_modified_date
    IN timeliness.results[i].details[1].submission_time =
         IF m # <<>> THEN m[1].wall - m[1].offset
                     ELSE timeliness.submission.created_at

\* a submission received at 23:05 whose document was last modified at
\* 06:05+08:00 was compared as 22:05 UTC, and one without a modification
\* time was compared by its receipt time
C21_Witness ==
  \E i \in Evaluated :
    \/ /\ timeliness.submission.created_at = 83100
       /\ timeliness.submission.last_modified_date # <<>>
       /\ timeliness.submission.last_modified_date[1].offset = 28800
       /\ timeliness.results[i].details[1].submission_time = 79500
    \/ /\ timeliness.submission.created_at = 83100
       /\ timeliness.submission.last_modified_date = <<>>
       /\ timeliness.results[i].details[1].submission_time = 83100

\* C30: for a submission with a deadline, Submission.is_late is true
\* exactly when evaluate_submission_timeliness classified it as late.
C30_LateFlagAgrees ==
  (timeliness.deadline # <<>> /\ timeliness.late # <<>>) =>
    \A i \in 1..Len(timeliness.results) :
      timeliness.late[1] <=> (timeliness.results[i].classification = LATE)

\* ------------------------------------------ service functions on their own
\* The service functions as functions of their arguments: call holds the
\* function's name, its arguments and, once it has returned, its result.

Unavailable == "Unavailable"

\* the name python-docx writes into the properties of a package it creates
ToolName == "python-docx"

\* the author and last-editor strings of a document: none, a person, the
\* tool's name
Authors == {"", "Alice", ToolName}
Editors == {"", "Bob", ToolName}

\* a modification time of a document as an ISO string, or none
ModifiedDates == {<<>>, <<"2024-01-01T22:05:00">>}

\* a .docx file: whether Document(file_path) loads it, its core properties
\* as python-docx returns them, the elements of docProps/core.xml as the
\* zip holds them, and the file's mtime (<<>>: os.path.getmtime raises)
DocxFiles ==
  [loads : BOOLEAN,
   core_props : [author : Authors, last_modified_by : Editors, modified : ModifiedDates],
   core_xml : [creator : Authors, lastModifiedBy : Editors, modified : ModifiedDates],
   mtime : {<<>>, <<"2024-01-01T23:05:00">>}]

\* 'python-docx' in str(name)
HasToolName(name) == name = ToolName

\* metadata_service.py:61-71: the properties python-docx returns
CoreProperties(metadata, props) ==
  [metadata EXCEPT
     !.author = IF props.author # "" THEN props.author ELSE @,
     !.last_modified_date = IF props.modified # <<>> THEN props.modified ELSE @,
     !.last_editor = IF props.last_modified_by # "" THEN props.last_modified_by ELSE @]

\* metadata_service.py:105-122: the elements of docProps/core.xml fill what
\* is still missing
CoreXml(metadata, xml) ==
  [metadata EXCEPT
     !.last_modified_date = IF xml.modified # <<>> /\ @ = <<>> THEN xml.modified ELSE @,
     !.last_editor = IF xml.lastModifiedBy # "" /\ @ = Unavailable
                       THEN xml.lastModifiedBy ELSE @,
     !.author = IF xml.creator # "" /\ @ = Unavailable THEN xml.creator ELSE @]

\* metadata_service.py:135-137: the last editor defaults to the author
EditorFallback(metadata) ==
  IF metadata.last_editor = Unavailable /\ metadata.author # Unavailable
    THEN [metadata EXCEPT !.last_editor = metadata.author]
    ELSE metadata

\* a cleanup that keeps the tool's name
CleanupToolName_Keep(metadata) == metadata

\* metadata_service.py:139-143: the tool's name is no author and no editor
CleanupToolName(metadata) ==
  [metadata EXCEPT
     !.last_editor = IF HasToolName(@) THEN Unavailable ELSE @,
     !.author = IF HasToolName(@) THEN Unavailable ELSE @]

\* metadata_service.py:168-172: the file's mtime when no date was found
FilesystemFallback(metadata, mtime) ==
  IF metadata.last_modified_date = <<>>
    THEN [metadata EXCEPT !.last_modified_date = mtime]
    ELSE metadata

\* MetadataService.extract_docx_metadata, metadata_service.py:34-175: the
\* author, last_editor and last_modified_date of the metadata it returns
DocxMetadata(file) ==
  LET initial == [author |-> Unavailable, last_editor |-> Unavailable,
                  last_modified_date |-> <<>>]
      parsed  == IF file.loads
                   THEN CoreXml(CoreProperties(initial, file.core_props), file.core_xml)
                   ELSE initial
  IN FilesystemFallback(CleanupToolName(EditorFallback(parsed)), file.mtime)

\* what validate_document_completeness is given: the content statistics of
\* a text (its words) and the text (0: empty, 1: blank lines only, 2: words)
CompletenessArgs ==
  [content_stats : [word_count : {0, 10, 49, 50, 100, 15001}], text : 0..2]

\* what Gemini does with a prompt: generate_content raises, or it returns a
\* response whose text is empty, or a text: a JSON object with a summary, a
\* JSON array, or prose, each bare or inside a ```json fence
GeminiResponses ==
  {[raises |-> TRUE, fenced |-> FALSE, body |-> ""]} \cup
  [raises : {FALSE}, fenced : BOOLEAN, body : {"", "object", "array", "prose"}]

\* what generate_ai_summary is given: whether Gemini is configured, whether
\* the deadline has a rubric, and what Gemini does
AiSummaryArgs == [gemini_initialized : BOOLEAN, rubric : BOOLEAN, response : GeminiResponses]

\* response.text: empty only for a bare empty body
ResponseText(response) ==
  [empty |-> ~response.fenced /\ response.body = "", raw |-> response]

\* nlp_service.py:340-341: json.loads of the text without its fences; the
\* type of the value, or <<>> when the text is no JSON
JsonLoads(response) ==
  CASE response.body = "object" -> <<"dict">>
    [] response.body = "array"  -> <<"list">>
    [] OTHER                    -> <<>>

AiNone == [type |-> "None", has_summary |-> FALSE]

\* NLPService.generate_ai_summary, nlp_service.py:299-354: <<value, error>>,
\* the value by its Python type and whether it has a key 'summary'
GenerateAiSummaryResult(args) ==
  IF ~args.gemini_initialized THEN <<AiNone, "Gemini AI not configured">>
  ELSE IF args.response.raises THEN <<AiNone, "exception">>
  ELSE IF ResponseText(args.response).empty THEN <<AiNone, "No response from Gemini">>
  ELSE IF args.rubric
    THEN IF JsonLoads(args.response) # <<>>
           THEN <<[type |-> JsonLoads(args.response)[1],
                   has_summary |-> JsonLoads(args.response)[1] = "dict"], NULL>>
           ELSE <<[type |-> "dict", has_summary |-> TRUE], NULL>>
    ELSE <<[type |-> "str", has_summary |-> FALSE], NULL>>

\* a section of the local analysis as consolidate_nlp_results gets it:
\* <<>> for None, else a dict, whose key the consolidation reads is absent
\* (<<>>: the dict of a failed sub-analysis, or one of another shape) or
\* holds a value.  Grades are whole, the diversity is in hundredths.
ReadabilitySections ==
  {<<>>} \cup {<<[scores |-> g]>> : g \in {<<>>, <<5>>, <<12>>, <<18>>}}
TokenSections ==
  {<<>>} \cup {<<[vocabulary_diversity |-> d]>> : d \in {<<>>, <<20>>, <<50>>}}
EntitySections ==
  {<<>>} \cup {<<[total_entities |-> n]>> : n \in {<<>>, <<3>>}}

\* the reviewer's summary: None, a dict without areas_for_improvement, or a
\* dict with one
AiSummaries ==
  {<<>>, <<[areas_for_improvement |-> <<>>]>>,
   <<[areas_for_improvement |-> <<"cite sources">>]>>}

ConsolidateArgs ==
  [local_results : [readability : ReadabilitySections, token_analysis : TokenSections,
                    named_entities : EntitySections],
   ai_summary : AiSummaries]

\* the rule of api/nlp.py:547-561 on a grade
ReadabilityRule(fk_grade) ==
  IF fk_grade > 16 THEN <<"simplify">>
  ELSE IF fk_grade < 8 THEN <<"sophisticate">>
  ELSE <<>>

\* the rule of api/nlp.py:564-571 on a diversity
VocabularyRule(diversity) == IF diversity < 30 THEN <<"vocabulary">> ELSE <<>>

\* the rule of api/nlp.py:574-580: one recommendation per improvement
AiRule(ai_summary) ==
  IF ai_summary # <<>> /\ ai_summary[1].areas_for_improvement # <<>>
    THEN <<"ai_suggestion">> ELSE <<>>

\* NLPAnalysisService._generate_recommendations, api/nlp.py:542-587: the
\* categories of the recommendations.  'scores' in None and None.get raise;
\* the except returns [].  .get(key, 0) reads an absent key as 0.
GenerateRecommendations(local_results, ai_summary) ==
  IF local_results.readability = <<>> \/ local_results.token_analysis = <<>>
    THEN <<>>
    ELSE
      (IF local_results.readability[1].scores # <<>>
         THEN ReadabilityRule(local_results.readability[1].scores[1]) ELSE <<>>)
      \o VocabularyRule(IF local_results.token_analysis[1].vocabulary_diversity # <<>>
                          THEN local_results.token_analysis[1].vocabulary_diversity[1]
                          ELSE 0)
      \o AiRule(ai_summary)

\* NLPAnalysisService.consolidate_nlp_results, api/nlp.py:505-540:
\* <<consolidated, error>>, consolidated <<>> for None.  The three metric
\* blocks raise on a section that is None; the except returns the error.
ConsolidateNlpResults(local_results, ai_summary) ==
  IF \/ local_results.readability = <<>>
     \/ local_results.token_analysis = <<>>
     \/ local_results.named_entities = <<>>
    THEN <<<<>>, "Consolidation error">>
    ELSE <<<<[recommendations |-> GenerateRecommendations(local_results, ai_summary)]>>,
           NULL>>

\* what happens to a sub-analysis of a text: it computes its section, or
\* something in it raises, or its library is not there (textstat is not
\* installed, no spaCy model is found)
LocalNlpArgs ==
  [sufficient : BOOLEAN,
   readability : {"ok", "raises", "unavailable"},
   token_analysis : {"ok", "raises"},
   named_entities : {"ok", "raises", "unavailable"},
   sentiment : {"ok", "raises"},
   text_statistics : {"ok", "raises"}]

\* NLPService._analyze_readability, nlp_service.py:159-194: the section and
\* whether a line was logged.  Without textstat it returns None at once.
AnalyzeReadability(mode) ==
  CASE mode = "ok"     -> [value |-> SET, logged |-> FALSE]
    [] mode = "raises" -> [value |-> NULL, logged |-> TRUE]
    [] OTHER           -> [value |-> NULL, logged |-> FALSE]

\* NLPService._analyze_tokens, nlp_service.py:196-219
AnalyzeTokens(mode) ==
  IF mode = "ok" THEN [value |-> SET, logged |-> FALSE]
                 ELSE [value |-> NULL, logged |-> TRUE]

\* NLPService._extract_named_entities, nlp_service.py:221-252: without a
\* model _initialize_spacy logs a warning (75-100) and the section is None
ExtractNamedEntities(mode) ==
  IF mode = "ok" THEN [value |-> SET, logged |-> FALSE]
                 ELSE [value |-> NULL, logged |-> TRUE]

\* NLPService._analyze_sentiment, nlp_service.py:254-274
AnalyzeSentiment(mode) ==
  IF mode = "ok" THEN [value |-> SET, logged |-> FALSE]
                 ELSE [value |-> NULL, logged |-> TRUE]

\* NLPService._compute_text_statistics, nlp_service.py:276-289
ComputeTextStatistics(mode) ==
  IF mode = "ok" THEN [value |-> SET, logged |-> FALSE]
                 ELSE [value |-> NULL, logged |-> TRUE]

\* the sub-sections the analysis names
LocalSections == {"readability", "token_analysis", "named_entities", "sentiment"}

\* NLPService.perform_local_nlp_analysis, nlp_service.py:125-157: the dict
\* it returns (error: <<>> when the dict has no key 'error') and the
\* sections a log line was written for
PerformLocalNlpAnalysis(args) ==
  IF ~args.sufficient
    THEN [error |-> <<"Insufficient text for NLP analysis">>,
          readability |-> NULL, token_analysis |-> NULL, named_entities |-> NULL,
          sentiment |-> NULL, text_statistics |-> NULL, logged |-> {}]
    ELSE
      LET readability     == AnalyzeReadability(args.readability)
          token_analysis  == AnalyzeTokens(args.token_analysis)
          named_entities  == ExtractNamedEntities(args.named_entities)
          sentiment       == AnalyzeSentiment(args.sentiment)
          text_statistics == ComputeTextStatistics(args.text_statistics)
      IN [error |-> <<>>,
          readability |-> readability.value,
          token_analysis |-> token_analysis.value,
          named_entities |-> named_entities.value,
          sentiment |-> sentiment.value,
          text_statistics |-> text_statistics.value,
          logged |-> {n \in LocalSections \cup {"text_statistics"} :
                        CASE n = "readability"    -> readability.logged
                          [] n = "token_analysis" -> token_analysis.logged
                          [] n = "named_entities" -> named_entities.logged
                          [] n = "sentiment"      -> sentiment.logged
                          [] OTHER                -> text_statistics.logged}]

CallInit ==
  /\ submissions = [s \in Subs |-> NoRow]
  /\ analysis_results = [s \in Subs |-> <<>>]
  /\ snapshots = <<>>
  /\ req = [r \in Reqs |-> IdleReq]
  /\ timeliness = NoTimeliness
  /\ \/ call \in {[fn |-> "extract_docx_metadata", args |-> f, result |-> <<>>] :
                      f \in DocxFiles}
     \/ call \in {[fn |-> "validate_document_completeness", args |-> a, result |-> <<>>] :
                      a \in CompletenessArgs}
     \/ call \in {[fn |-> "generate_ai_summary", args |-> a, result |-> <<>>] :
                      a \in AiSummaryArgs}
     \/ call \in {[fn |-> "consolidate_nlp_results", args |-> a, result |-> <<>>] :
                      a \in ConsolidateArgs}
     \/ call \in {[fn |-> "perform_local_nlp_analysis", args |-> a, result |-> <<>>] :
                      a \in LocalNlpArgs}

\* the call returns: its result is kept
Returns(result) ==
  /\ call.result = <<>>
  /\ call' = [call EXCEPT !.result = <<result>>]
  /\ UNCHANGED <<submissions, analysis_results, snapshots, req, timeliness>>

ExtractDocxMetadata ==
  /\ call.fn = "extract_docx_metadata"
  /\ Returns(DocxMetadata(call.args))

ValidateDocumentCompleteness ==
  /\ call.fn = "validate_document_completeness"
  /\ Returns(validate_document_completeness(call.args.content_stats, call.args.text))

GenerateAiSummary ==
  /\ call.fn = "generate_ai_summary"
  /\ Returns(GenerateAiSummaryResult(call.args))

ConsolidateResults ==
  /\ call.fn = "consolidate_nlp_results"
  /\ Returns(ConsolidateNlpResults(call.args.local_results, call.args.ai_summary))

LocalNlpAnalysis ==
  /\ call.fn = "perform_local_nlp_analysis"
  /\ Returns(PerformLocalNlpAnalysis(call.args))

CallNext ==
  \/ ExtractDocxMetadata
  \/ ValidateDocumentCompleteness
  \/ GenerateAiSummary
  \/ ConsolidateResults
  \/ LocalNlpAnalysis

CallSpec == CallInit /\ [][CallNext]_vars

\* the extraction has returned its metadata
Extracted == call.fn = "extract_docx_metadata" /\ call.result # <<>>

\* C22: in the metadata extract_docx_metadata returns, a last_editor is
\* never unavailable while the author is known: it is then the author, also
\* when a property holds the tool's own name; and the author is never taken
\* from the last editor.
C22_EditorDefaultsToAuthor ==
  Extracted =>
    LET m == call.result[1]
        f == call.args
    IN /\ m.author # Unavailable => m.last_editor # Unavailable
       /\ m.author \in {Unavailable, f.core_props.author, f.core_xml.creator}

\* C23: when the author and the last editor of the structured properties
\* are both the tool's name, the returned author and last_editor are both
\* "Unavailable".
C23_ToolNameIsUnavailable ==
  (/\ Extracted
   /\ call.args.loads
   /\ call.args.core_props.author = ToolName
   /\ call.args.core_props.last_modified_by = ToolName) =>
    /\ call.result[1].author = Unavailable
    /\ call.result[1].last_editor = Unavailable

\* such a document, whose core.xml names a person, was extracted
C23_Witness ==
  /\ Extracted
  /\ call.args.loads
  /\ call.args.core_props.author = ToolName
  /\ call.args.core_props.last_modified_by = ToolName
  /\ call.args.core_xml.creator = "Alice"
  /\ call.result[1].author = Unavailable

\* C25: validate_document_completeness, whose thresholds are all disabled,
\* returns isComplete = true whatever content statistics and text it gets.
C25_NoThresholdNeverBlocks ==
  (call.fn = "validate_document_completeness" /\ call.result # <<>>) =>
    call.result[1][1] = TRUE

\* an empty document was validated
C25_Witness ==
  /\ call.fn = "validate_document_completeness"
  /\ call.result # <<>>
  /\ call.args.content_stats.word_count = 0
  /\ call.args.text = 0

\* C26: when Gemini answers with a text, generate_ai_summary returns a
\* structured value, a dict: a text that is not the JSON asked for (rubric
\* mode) and the text of the free mode are wrapped as {summary: text}, so
\* that ai_summary.get('summary') of analyze_submission succeeds.
C26_SummaryIsStructured ==
  (/\ call.fn = "generate_ai_summary"
   /\ call.result # <<>>
   /\ call.args.gemini_initialized
   /\ ~call.args.response.raises
   /\ ~ResponseText(call.args.response).empty) =>
    /\ call.result[1][1].type = "dict"
    /\ call.result[1][2] = NULL
    /\ (~call.args.rubric \/ JsonLoads(call.args.response) = <<>>) =>
         call.result[1][1].has_summary

\* C27: whichever of readability, token_analysis and named_entities are
\* null, consolidate_nlp_results returns a consolidated summary and no
\* error, and its recommendations are those of the rules whose input is
\* there, the reviewer's improvements included.
C27_ConsolidationNeverFails ==
  (call.fn = "consolidate_nlp_results" /\ call.result # <<>>) =>
    LET local == call.args.local_results
        out   == call.result[1]
    IN /\ out[2] = NULL
       /\ out[1] # <<>>
       /\ out[1][1].recommendations =
            (IF local.readability # <<>> /\ local.readability[1].scores # <<>>
               THEN ReadabilityRule(local.readability[1].scores[1]) ELSE <<>>)
            \o (IF local.token_analysis # <<>>
                    /\ local.token_analysis[1].vocabulary_diversity # <<>>
                  THEN VocabularyRule(local.token_analysis[1].vocabulary_diversity[1])
                  ELSE <<>>)
            \o AiRule(call.args.ai_summary)

\* C28: in the result of perform_local_nlp_analysis on a sufficient text, a
\* sub-analysis that failed has a null section and an error note (a key
\* 'error' of the result, or at least a log line for the section), and
\* every sub-analysis that did not fail has its section.
C28_SubAnalysisFailureIsLocal ==
  (/\ call.fn = "perform_local_nlp_analysis"
   /\ call.result # <<>>
   /\ call.args.sufficient) =>
    \A n \in LocalSections :
      IF call.args[n] = "ok"
        THEN call.result[1][n] = SET
        ELSE /\ call.result[1][n] = NULL
             /\ call.result[1].error # <<>> \/ n \in call.result[1].logged

\* C24: a run that has come to its text analysis ends, whatever the AI
\* reviewer does: a reviewer that does not answer is given up and the run
\* returns its report.
C24_ReviewerNeverBlocks ==
  \A r \in Reqs : (req[r].pc = "a_nlp") ~> (req[r].pc = "done")

====
